---- MODULE Spec2Model ----
(***************************************************************************)
(* MetadataReader (src/src/reader.js): the accessors of a reader built     *)
(* over one parsed SAML metadata document.                                 *)
(*                                                                         *)
(* Strings the code inspects character by character (index values, the     *)
(* certificate text, the attribute Name spliced into an XPath query) are   *)
(* sequences of one-character strings; every other string is a sequence of *)
(* opaque tokens, so that string equality is sequence equality.            *)
(***************************************************************************)
EXTENDS Integers, Sequences, FiniteSets, TLC

VARIABLES doc, options, last

vars == <<doc, options, last>>

-----------------------------------------------------------------------------
(* Bounds of the explored documents.                                       *)

MaxElems == 2
MaxCerts == 2
MaxAttrs == 2
MaxSmall == 1

-----------------------------------------------------------------------------
(* Outcomes.  Inside a try block an expression either has a value or has   *)
(* raised; a call either returns a value, returns undefined, or throws.    *)

Ok(v) == [kind |-> "ok", val |-> v]

Err == [kind |-> "err", val |-> <<>>]

Undefined == [kind |-> "undefined", val |-> <<>>]

Thrown == [kind |-> "thrown", val |-> <<>>]

NotCalled == [kind |-> "none", val |-> <<>>]

CatchAlwaysThrowing(o, body) ==
    IF body.kind = "err" THEN Thrown ELSE body

\* The catch block every accessor but claimSchema ends with.
Catch(o, body) ==
    IF body.kind = "err"
    THEN (IF o.throwExceptions THEN Thrown ELSE Undefined)
    ELSE body

\* this.query: select(query, doc), rethrowing what select throws.  The paths
\* the accessors use are constant; path names the node list of the document
\* that the constant path selects.  select has no tree to walk when the parser
\* produced no document.
query(d, path) ==
    IF d.parsed THEN Ok(d[path]) ELSE Err

-----------------------------------------------------------------------------
(* lodash find over an attribute list.                                     *)

\* find(attributes, { name: n }): position of the first match, 0 for undefined.
FindByName(attributes, n) ==
    IF \E i \in 1..Len(attributes) : attributes[i].name = n
    THEN CHOOSE i \in 1..Len(attributes) :
            /\ attributes[i].name = n
            /\ \A j \in 1..(i - 1) : attributes[j].name # n
    ELSE 0

\* find(attributes, { value: v }): position of the first match, 0 for undefined.
FindByValue(attributes, v) ==
    IF \E i \in 1..Len(attributes) : attributes[i].value = v
    THEN CHOOSE i \in 1..Len(attributes) :
            /\ attributes[i].value = v
            /\ \A j \in 1..(i - 1) : attributes[j].value # v
    ELSE 0

-----------------------------------------------------------------------------
(* lodash sortBy with the index iteratee.                                  *)

DigitValue(c) ==
    CASE c = "0" -> 0 [] c = "1" -> 1 [] c = "2" -> 2 [] c = "3" -> 3
      [] c = "4" -> 4 [] c = "5" -> 5 [] c = "6" -> 6 [] c = "7" -> 7
      [] c = "8" -> 8 [] c = "9" -> 9

RECURSIVE ToNumber(_)
\* ToNumber of a string of decimal digits.
ToNumber(chars) ==
    IF Len(chars) = 0 THEN 0
    ELSE 10 * ToNumber(SubSeq(chars, 1, Len(chars) - 1))
         + DigitValue(chars[Len(chars)])

RECURSIVE StringLess(_, _)
\* a < b on two strings: by code unit, a proper prefix first.
StringLess(a, b) ==
    IF Len(b) = 0 THEN FALSE
    ELSE IF Len(a) = 0 THEN TRUE
    ELSE IF a[1] # b[1] THEN DigitValue(a[1]) < DigitValue(b[1])
    ELSE StringLess(Tail(a), Tail(b))

\* The iteratee: the index attribute's value (a string) or the number 0.
IndexCriteria(element) ==
    LET i == FindByName(element, "index")
    IN  IF i # 0
        THEN [isString |-> TRUE, chars |-> element[i].value]
        ELSE [isString |-> FALSE, chars |-> <<"0">>]

\* value > other of JavaScript: two strings compare as strings, anything else
\* as numbers.
GreaterThan(value, other) ==
    IF value.isString /\ other.isString
    THEN StringLess(other.chars, value.chars)
    ELSE ToNumber(value.chars) > ToNumber(other.chars)

\* lodash compareAscending on defined, non-null, non-symbol values.
compareAscending(value, other) ==
    IF value = other THEN 0
    ELSE IF GreaterThan(value, other) THEN 1
    ELSE IF GreaterThan(other, value) THEN -1
    ELSE 0

\* lodash compareMultiple with one criterion: ties fall back to the position
\* in the collection.
compareMultiple(object, other) ==
    LET result == compareAscending(object.criteria, other.criteria)
    IN  IF result # 0 THEN result ELSE object.index - other.index

RECURSIVE InsertSorted(_, _)
InsertSorted(sorted, x) ==
    IF Len(sorted) = 0 THEN <<x>>
    ELSE IF compareMultiple(x, sorted[Len(sorted)]) >= 0 THEN Append(sorted, x)
    ELSE Append(InsertSorted(SubSeq(sorted, 1, Len(sorted) - 1), x),
                sorted[Len(sorted)])

RECURSIVE baseSortBy(_)
\* array.sort(comparer).  On the index values of IndexValues the comparer is a
\* strict total order, so every sorting algorithm returns this order.  (With
\* two different texts of the number 0, such as "0" and "00", next to a
\* missing index the comparer is not consistent and the order is left to the
\* engine; IndexValues holds no such pair.)
baseSortBy(array) ==
    IF Len(array) = 0 THEN <<>>
    ELSE InsertSorted(baseSortBy(SubSeq(array, 1, Len(array) - 1)),
                      array[Len(array)])

\* sortBy(elements, iteratee): a new array, the collection is left as it was.
sortBy(elements) ==
    LET tagged == [i \in 1..Len(elements) |->
                     [criteria |-> IndexCriteria(elements[i]), index |-> i,
                      value |-> elements[i]]]
        sorted == baseSortBy(tagged)
    IN  [i \in 1..Len(elements) |-> sorted[i].value]

-----------------------------------------------------------------------------
(* identityProviderUrl / logoutUrl.                                        *)

BindingPrefix == "urn:oasis:names:tc:SAML:2.0:bindings:"

\* `urn:oasis:names:tc:SAML:2.0:bindings:${this.options.authnRequestBinding}`
BindingUri(o) == <<BindingPrefix, o.authnRequestBinding>>

\* The predicate handed to find: the element has an attribute whose value is
\* the binding URI.
HasBindingValue(element, o) ==
    FindByValue(element, BindingUri(o)) # 0

\* find(sorted, predicate) || sorted[0]: position in sorted, 0 for undefined.
SelectedIndex(sorted, o) ==
    IF \E i \in 1..Len(sorted) : HasBindingValue(sorted[i], o)
    THEN CHOOSE i \in 1..Len(sorted) :
            /\ HasBindingValue(sorted[i], o)
            /\ \A j \in 1..(i - 1) : ~HasBindingValue(sorted[j], o)
    ELSE IF Len(sorted) > 0 THEN 1 ELSE 0

LocationOrEmpty(element) ==
    LET i == FindByName(element, "Location")
    IN  IF i = 0 THEN Ok(<<>>) ELSE Ok(element[i].value)

\* find(element.attributes, { name: 'Location' }).value
LocationValue(element) ==
    LET i == FindByName(element, "Location")
    IN  IF i = 0 THEN Err ELSE Ok(element[i].value)

\* The try block of identityProviderUrl and of logoutUrl, which differ only in
\* the element name of the query.
ServiceLocation(d, o, path) ==
    LET found == query(d, path)
    IN  IF found.kind = "err" THEN Err
        ELSE LET sorted == sortBy(found.val)
                 s == SelectedIndex(sorted, o)
             IN  IF s = 0 THEN Err ELSE LocationValue(sorted[s])

identityProviderUrl(d, o) == Catch(o, ServiceLocation(d, o, "sso"))

logoutUrl(d, o) == Catch(o, ServiceLocation(d, o, "slo"))

-----------------------------------------------------------------------------
(* encryptionCerts / signingCerts and the single-certificate accessors.    *)

\* The characters /[\r\n\t\s]/ and String.prototype.trim treat as white space,
\* among the characters of the explored certificate texts.
IsWhitespace(c) == c \in {" ", "\t", "\r", "\n"}

RECURSIVE RemoveWhitespace(_)
\* data.replace(/[\r\n\t\s]/gm, '')
RemoveWhitespace(data) ==
    IF Len(data) = 0 THEN <<>>
    ELSE IF IsWhitespace(data[1]) THEN RemoveWhitespace(Tail(data))
    ELSE <<data[1]>> \o RemoveWhitespace(Tail(data))

RECURSIVE TrimStart(_)
TrimStart(data) ==
    IF Len(data) > 0 /\ IsWhitespace(data[1]) THEN TrimStart(Tail(data))
    ELSE data

RECURSIVE TrimEnd(_)
TrimEnd(data) ==
    IF Len(data) > 0 /\ IsWhitespace(data[Len(data)])
    THEN TrimEnd(SubSeq(data, 1, Len(data) - 1))
    ELSE data

TrimStartOnly(data) == TrimStart(data)

\* String.prototype.trim
Trim(data) == TrimEnd(TrimStart(data))

KeyUseAny(node, use) ==
    node.role = "IDPSSODescriptor"

\* md:KeyDescriptor[@use="<use>" or not(@use)] under //md:IDPSSODescriptor.
\* A node's use is the sequence of use attributes of its KeyDescriptor: empty
\* or one value.
KeyUseMatches(node, use) ==
    /\ node.role = "IDPSSODescriptor"
    /\ (node.use = <<use>> \/ node.use = <<>>)

RECURSIVE SelectNodes(_, _)
\* The X509Certificate nodes the query returns, in document order.
SelectNodes(nodes, use) ==
    IF Len(nodes) = 0 THEN <<>>
    ELSE IF KeyUseMatches(nodes[1], use)
         THEN <<nodes[1]>> \o SelectNodes(Tail(nodes), use)
         ELSE SelectNodes(Tail(nodes), use)

\* The map callback on a node with a first child: node.firstChild.data, with
\* white space removed when trimNewLines === true.
CertText(node, trimNewLines) ==
    IF trimNewLines THEN RemoveWhitespace(node.firstChild.data)
    ELSE node.firstChild.data

RECURSIVE SkipUnreadable(_, _)
SkipUnreadable(nodes, trimNewLines) ==
    IF Len(nodes) = 0 THEN Ok(<<>>)
    ELSE IF nodes[1].firstChild.isNull
         THEN SkipUnreadable(Tail(nodes), trimNewLines)
         ELSE Ok(<<CertText(nodes[1], trimNewLines)>>
                 \o SkipUnreadable(Tail(nodes), trimNewLines).val)

\* nodes.map(callback): reading .data of a null firstChild raises and ends the
\* map.
MapCertText(nodes, trimNewLines) ==
    IF \E i \in 1..Len(nodes) : nodes[i].firstChild.isNull THEN Err
    ELSE Ok([i \in 1..Len(nodes) |-> CertText(nodes[i], trimNewLines)])

\* The try block shared, but for the use value, by encryptionCerts and
\* signingCerts.
CertsBody(d, use, trimNewLines) ==
    LET found == query(d, "certs")
    IN  IF found.kind = "err" THEN Err
        ELSE MapCertText(SelectNodes(found.val, use), trimNewLines)

encryptionCerts(d, o, trimNewLines) ==
    Catch(o, CertsBody(d, "encryption", trimNewLines))

signingCerts(d, o, trimNewLines) ==
    Catch(o, CertsBody(d, "signing", trimNewLines))

\* list[0].trim() on what the list accessor returned: a throw of the list
\* accessor passes through, undefined[0] and undefined.trim() raise.
FirstOfList(list) ==
    IF list.kind # "ok" THEN Err
    ELSE IF Len(list.val) = 0 THEN Err
    ELSE Ok(Trim(list.val[1]))

encryptionCert(d, o, trimNewLines) ==
    Catch(o, FirstOfList(encryptionCerts(d, o, trimNewLines)))

signingCert(d, o, trimNewLines) ==
    Catch(o, FirstOfList(signingCerts(d, o, trimNewLines)))

-----------------------------------------------------------------------------
(* entityID / identifierFormat.                                            *)

\* this.query(path)[0].nodeValue
FirstNodeValue(d, path) ==
    LET found == query(d, path)
    IN  IF found.kind = "err" THEN Err
        ELSE IF Len(found.val) = 0 THEN Err
        ELSE Ok(found.val[1])

entityID(d, o) == Catch(o, FirstNodeValue(d, "entityIDs"))

identifierFormat(d, o) == Catch(o, FirstNodeValue(d, "nameIDFormats"))

-----------------------------------------------------------------------------
(* claimSchema.                                                            *)

Quote == "\""

OrKeyword == " or "

\* The text between the brackets of
\*   `//md:IDPSSODescriptor/claim:Attribute[@Name="${name}"]/@FriendlyName`
\* after @Name= : the name between two quotes, spliced in as it is.
PredicateText(name) == <<Quote>> \o name \o <<Quote>>

NoOperands == [ok |-> FALSE, operands |-> <<>>]

RECURSIVE ScanPredicate(_, _, _, _)
\* The XPath reading of that text: a string literal runs to the next quote;
\* outside a literal an operand (a literal, or a name, which is a child name
\* test) may only be followed by the operator or, and the text has to end after
\* an operand.  state is where the reader is: "operand" (one is expected),
\* "literal" (inside one), "name" (inside a name test), "after" (an operand has
\* just ended).  Returns the operands of the or-expression, or ok = FALSE where
\* the expression does not parse.
ScanPredicate(rest, state, cur, operands) ==
    IF Len(rest) = 0
    THEN IF state \in {"after", "name"}
         THEN [ok |-> TRUE, operands |-> operands]
         ELSE NoOperands
    ELSE LET t == rest[1] IN
         CASE state = "literal" ->
                IF t = Quote
                THEN ScanPredicate(Tail(rest), "after", <<>>,
                        Append(operands, [isLiteral |-> TRUE, text |-> cur]))
                ELSE ScanPredicate(Tail(rest), "literal", Append(cur, t), operands)
           [] state = "operand" ->
                IF t = Quote
                THEN ScanPredicate(Tail(rest), "literal", <<>>, operands)
                ELSE ScanPredicate(Tail(rest),
                        IF t = OrKeyword THEN "after" ELSE "name", <<>>,
                        Append(operands, [isLiteral |-> FALSE, text |-> <<>>]))
           [] state = "name" ->
                IF t = Quote THEN NoOperands
                ELSE IF t = OrKeyword
                THEN ScanPredicate(Tail(rest), "operand", <<>>, operands)
                ELSE ScanPredicate(Tail(rest), "name", <<>>, operands)
           [] state = "after" ->
                IF t = OrKeyword
                THEN ScanPredicate(Tail(rest), "operand", <<>>, operands)
                ELSE NoOperands

ParsePredicate(name) == ScanPredicate(PredicateText(name), "operand", <<>>, <<>>)

\* Whether a claim:Attribute element passes the predicate: @Name = the first
\* literal, or a later operand that is true (a non-empty literal; a child name
\* test selects nothing under claim:Attribute).
PassesPredicate(attribute, operands) ==
    \/ LET i == FindByName(attribute, "Name")
       IN  i # 0 /\ attribute[i].value = operands[1].text
    \/ \E k \in 2..Len(operands) :
          operands[k].isLiteral /\ Len(operands[k].text) > 0

RECURSIVE AttributeValues(_, _)
\* The values of the attribute called n of the given elements, in document
\* order (.../@n).
AttributeValues(elements, n) ==
    IF Len(elements) = 0 THEN <<>>
    ELSE LET i == FindByName(elements[1], n)
         IN  (IF i = 0 THEN <<>> ELSE <<elements[1][i].value>>)
             \o AttributeValues(Tail(elements), n)

RECURSIVE SelectAttributes(_, _)
SelectAttributes(elements, operands) ==
    IF Len(elements) = 0 THEN <<>>
    ELSE (IF PassesPredicate(elements[1], operands) THEN <<elements[1]>> ELSE <<>>)
         \o SelectAttributes(Tail(elements), operands)

\* this.query(`...[@Name="${name}"]/@FriendlyName`)[0].value
FriendlyNameOf(d, name) ==
    LET parsed == ParsePredicate(name)
    IN  IF ~d.parsed \/ ~parsed.ok THEN Err
        ELSE LET values == AttributeValues(
                              SelectAttributes(d.attributes, parsed.operands),
                              "FriendlyName")
             IN  IF Len(values) = 0 THEN Err ELSE Ok(values[1])

\* claims[node.value] = { name, description, camelCase }.  camelCase is
\* camelCase(description), a function of description alone that does not
\* raise; the field is left out.
SetClaim(claims, name, description) ==
    [n \in DOMAIN claims \cup {name} |->
        IF n = name THEN [name |-> name, description |-> description]
        ELSE claims[n]]

RECURSIVE ReduceClaims(_, _, _, _)
\* The reduce callback over the @Name nodes, with its inner try / catch.
ReduceClaims(d, o, names, claims) ==
    IF Len(names) = 0 THEN Ok(claims)
    ELSE LET description == FriendlyNameOf(d, names[1])
         IN  IF description.kind = "err"
             THEN (IF o.throwExceptions THEN Err
                   ELSE ReduceClaims(d, o, Tail(names), claims))
             ELSE ReduceClaims(d, o, Tail(names),
                               SetClaim(claims, names[1], description.val))

EmptyClaims == [n \in {} |-> <<>>]

claimSchema(d, o) ==
    LET found == query(d, "attributes")
        body == IF found.kind = "err" THEN Err
                ELSE ReduceClaims(d, o, AttributeValues(found.val, "Name"),
                                  EmptyClaims)
    IN  IF body.kind = "err"
        THEN (IF o.throwExceptions THEN Thrown ELSE Ok(EmptyClaims))
        ELSE body

-----------------------------------------------------------------------------
(* The reader: the parsed document (the constructor's doc, which the query *)
(* closure captures), this.options, and the last call made with its        *)
(* outcome.                                                                *)

\* merge({}, defaultOptions, options)
DefaultOptions == [authnRequestBinding |-> "HTTP-Redirect", throwExceptions |-> FALSE]

MergeOptions(overrides) ==
    [k \in DOMAIN DefaultOptions |->
        IF k \in DOMAIN overrides THEN overrides[k] ELSE DefaultOptions[k]]

Operations ==
    {"entityID", "identifierFormat", "identityProviderUrl", "logoutUrl",
     "encryptionCerts", "encryptionCert", "signingCerts", "signingCert",
     "claimSchema"}

\* What the accessor op returns or throws on document d with options o;
\* trimNewLines is read by the four certificate accessors only.
Result(op, trimNewLines, d, o) ==
    CASE op = "entityID" -> entityID(d, o)
      [] op = "identifierFormat" -> identifierFormat(d, o)
      [] op = "identityProviderUrl" -> identityProviderUrl(d, o)
      [] op = "logoutUrl" -> logoutUrl(d, o)
      [] op = "encryptionCerts" -> encryptionCerts(d, o, trimNewLines)
      [] op = "encryptionCert" -> encryptionCert(d, o, trimNewLines)
      [] op = "signingCerts" -> signingCerts(d, o, trimNewLines)
      [] op = "signingCert" -> signingCert(d, o, trimNewLines)
      [] op = "claimSchema" -> claimSchema(d, o)

AfterCallTrimmingInPlace(op, trimNewLines, d, o) ==
    [doc |-> IF op \in {"encryptionCerts", "signingCerts"} /\ trimNewLines
             THEN [d EXCEPT !.certs =
                     [i \in 1..Len(d.certs) |->
                        [d.certs[i] EXCEPT !.firstChild.data = RemoveWhitespace(@)]]]
             ELSE d,
     options |-> o]

\* The reader after a call.  No accessor assigns to this.options or to a node
\* of the document: sortBy, map, replace and reduce build new values.
AfterCall(op, trimNewLines, d, o) == [doc |-> d, options |-> o]

\* The record of a call and of what it returned or threw.
Invocation(op, trimNewLines) ==
    [op |-> op, trimNewLines |-> trimNewLines,
     result |-> Result(op, trimNewLines, doc, options)]

entityIDGet ==
    /\ last' = Invocation("entityID", FALSE)
    /\ doc' = AfterCall("entityID", FALSE, doc, options).doc
    /\ options' = AfterCall("entityID", FALSE, doc, options).options

identifierFormatGet ==
    /\ last' = Invocation("identifierFormat", FALSE)
    /\ doc' = AfterCall("identifierFormat", FALSE, doc, options).doc
    /\ options' = AfterCall("identifierFormat", FALSE, doc, options).options

identityProviderUrlGet ==
    /\ last' = Invocation("identityProviderUrl", FALSE)
    /\ doc' = AfterCall("identityProviderUrl", FALSE, doc, options).doc
    /\ options' = AfterCall("identityProviderUrl", FALSE, doc, options).options

logoutUrlGet ==
    /\ last' = Invocation("logoutUrl", FALSE)
    /\ doc' = AfterCall("logoutUrl", FALSE, doc, options).doc
    /\ options' = AfterCall("logoutUrl", FALSE, doc, options).options

encryptionCertsCall ==
    \E trimNewLines \in BOOLEAN :
        /\ last' = Invocation("encryptionCerts", trimNewLines)
        /\ doc' = AfterCall("encryptionCerts", trimNewLines, doc, options).doc
        /\ options' = AfterCall("encryptionCerts", trimNewLines, doc, options).options

encryptionCertCall ==
    \E trimNewLines \in BOOLEAN :
        /\ last' = Invocation("encryptionCert", trimNewLines)
        /\ doc' = AfterCall("encryptionCert", trimNewLines, doc, options).doc
        /\ options' = AfterCall("encryptionCert", trimNewLines, doc, options).options

signingCertsCall ==
    \E trimNewLines \in BOOLEAN :
        /\ last' = Invocation("signingCerts", trimNewLines)
        /\ doc' = AfterCall("signingCerts", trimNewLines, doc, options).doc
        /\ options' = AfterCall("signingCerts", trimNewLines, doc, options).options

signingCertCall ==
    \E trimNewLines \in BOOLEAN :
        /\ last' = Invocation("signingCert", trimNewLines)
        /\ doc' = AfterCall("signingCert", trimNewLines, doc, options).doc
        /\ options' = AfterCall("signingCert", trimNewLines, doc, options).options

claimSchemaGet ==
    /\ last' = Invocation("claimSchema", FALSE)
    /\ doc' = AfterCall("claimSchema", FALSE, doc, options).doc
    /\ options' = AfterCall("claimSchema", FALSE, doc, options).options

-----------------------------------------------------------------------------
(* The documents and options explored.                                     *)

EmptyDoc ==
    [parsed |-> TRUE, entityIDs |-> <<>>, nameIDFormats |-> <<>>,
     sso |-> <<>>, slo |-> <<>>, certs |-> <<>>, attributes |-> <<>>]

\* parseFromString returned no document: every query raises.
NoDoc == [EmptyDoc EXCEPT !.parsed = FALSE]

PositionName(i) == <<"1", "2", "3", "4", "5", "6">>[i]

Bindings == {"HTTP-Redirect", "HTTP-POST"}

IndexValues == {<<"0">>, <<"2">>, <<"0", "2">>, <<"1", "0">>}

OptionalAttribute(n, values) ==
    {<<>>} \cup {<<[name |-> n, value |-> v]>> : v \in values}

\* The service elements that may stand at position i of the document: an
\* optional index, a Binding and an optional Location naming the position;
\* or an HTTP-POST element without index that also carries a ResponseLocation
\* whose value is the HTTP-Redirect binding URI.
ServiceElements(i) ==
    {ix \o <<[name |-> "Binding", value |-> <<BindingPrefix, b>>]>> \o loc :
        ix \in OptionalAttribute("index", IndexValues),
        b \in Bindings,
        loc \in OptionalAttribute("Location", {<<"https://idp/", PositionName(i)>>})}
    \cup
    {<<[name |-> "Binding", value |-> <<BindingPrefix, "HTTP-POST">>],
       [name |-> "ResponseLocation",
        value |-> <<BindingPrefix, "HTTP-Redirect">>]>> \o loc :
        loc \in OptionalAttribute("Location", {<<"https://idp/", PositionName(i)>>})}

CertTexts ==
    {<<"A">>, <<" ", "A", "\n", "B", "\t">>, <<"\r", "B", " ", "A", "\n">>}

CertContents ==
    {[isNull |-> TRUE, data |-> <<>>]}
    \cup {[isNull |-> FALSE, data |-> t] : t \in CertTexts}

\* The X509Certificate nodes that may stand in the document: under a
\* KeyDescriptor of the IDPSSODescriptor with any use or none, empty or with a
\* text node as first child; or under a KeyDescriptor of an SPSSODescriptor.
CertNodes ==
    {[role |-> "IDPSSODescriptor", use |-> u, firstChild |-> c] :
        u \in {<<>>, <<"signing">>, <<"encryption">>, <<"other">>},
        c \in CertContents}
    \cup
    {[role |-> "SPSSODescriptor", use |-> <<>>, firstChild |-> c] :
        c \in {[isNull |-> TRUE, data |-> <<>>],
               [isNull |-> FALSE, data |-> <<"S">>]}}

AttributeNames ==
    {<<"a">>, <<"b">>, <<"a", Quote, "b">>, <<Quote, OrKeyword, Quote, "a">>}

\* The claim:Attribute elements that may stand at position i: a Name, and
\* optionally a FriendlyName naming the position.
ClaimAttributes(i) ==
    {<<[name |-> "Name", value |-> n]>> \o fn :
        n \in AttributeNames,
        fn \in OptionalAttribute("FriendlyName", {<<"Friendly ", PositionName(i)>>})}

\* What may stand at position i of a node list of the given kind.
ElementsAt(kind, i) ==
    CASE kind = "service" -> ServiceElements(i)
      [] kind = "cert" -> CertNodes
      [] kind = "claim" -> ClaimAttributes(i)

RECURSIVE SeqsOfLength(_, _)
SeqsOfLength(kind, n) ==
    IF n = 0 THEN {<<>>}
    ELSE {Append(s, e) : s \in SeqsOfLength(kind, n - 1), e \in ElementsAt(kind, n)}

SeqsUpTo(kind, n) == UNION {SeqsOfLength(kind, k) : k \in 0..n}

ServiceDocs(n) ==
    {[EmptyDoc EXCEPT !.sso = s] : s \in SeqsUpTo("service", n)}
    \cup {[EmptyDoc EXCEPT !.slo = s] : s \in SeqsUpTo("service", n)}

CertDocs(n) == {[EmptyDoc EXCEPT !.certs = s] : s \in SeqsUpTo("cert", n)}

ClaimDocs(n) == {[EmptyDoc EXCEPT !.attributes = s] : s \in SeqsUpTo("claim", n)}

IdentityDocs ==
    {[EmptyDoc EXCEPT !.entityIDs = e, !.nameIDFormats = f] :
        e \in {<<>>, <<<<"https://idp.example.com">>>>,
               <<<<"https://idp.example.com">>, <<"https://other.example.com">>>>},
        f \in {<<>>, <<<<"urn:nameid-format:a">>>>,
               <<<<"urn:nameid-format:a">>, <<"urn:nameid-format:b">>>>}}

OptionOverrides ==
    {<<>>} \cup [throwExceptions : BOOLEAN]
    \cup [authnRequestBinding : Bindings]
    \cup [authnRequestBinding : Bindings, throwExceptions : BOOLEAN]

InitWith(docs) ==
    /\ doc \in docs \cup {NoDoc}
    /\ options \in {MergeOptions(ov) : ov \in OptionOverrides}
    /\ last = [op |-> "none", trimNewLines |-> FALSE, result |-> NotCalled]

Init ==
    InitWith(IdentityDocs \cup ServiceDocs(MaxSmall) \cup CertDocs(MaxSmall)
             \cup ClaimDocs(MaxSmall))

Next ==
    \/ entityIDGet
    \/ identifierFormatGet
    \/ identityProviderUrlGet
    \/ logoutUrlGet
    \/ encryptionCertsCall
    \/ encryptionCertCall
    \/ signingCertsCall
    \/ signingCertCall
    \/ claimSchemaGet

Spec == Init /\ [][Next]_vars

InitEndpoints == InitWith(ServiceDocs(MaxElems))

NextEndpoints == identityProviderUrlGet \/ logoutUrlGet

SpecEndpoints == InitEndpoints /\ [][NextEndpoints]_vars

InitCerts == InitWith(CertDocs(MaxCerts))

NextCerts ==
    \/ encryptionCertsCall
    \/ encryptionCertCall
    \/ signingCertsCall
    \/ signingCertCall

SpecCerts == InitCerts /\ [][NextCerts]_vars

InitClaims == InitWith(ClaimDocs(MaxAttrs))

NextClaims == claimSchemaGet

SpecClaims == InitClaims /\ [][NextClaims]_vars

-----------------------------------------------------------------------------
(* What the claims say, in terms of the document.                          *)

\* The outcome of a failed accessor under the fail-soft contract.
Absent == IF options.throwExceptions THEN Thrown ELSE Undefined

IsEndpointCall == last.op \in {"identityProviderUrl", "logoutUrl"}

\* The candidate service elements of the last endpoint call, in document order.
Candidates == IF last.op = "identityProviderUrl" THEN doc.sso ELSE doc.slo

\* The index of a candidate as a number, a missing index counting as 0.
NumericIndex(element) ==
    LET i == FindByName(element, "index")
    IN  IF i = 0 THEN 0 ELSE ToNumber(element[i].value)

HasLocation(element) == FindByName(element, "Location") # 0

LocationOf(element) == element[FindByName(element, "Location")].value

\* The Binding attribute of the candidate is the configured binding URI.
BindingAttributeMatches(element) ==
    \E k \in 1..Len(element) :
        /\ element[k].name = "Binding"
        /\ element[k].value = <<BindingPrefix, options.authnRequestBinding>>

Returned(value) == last.result.kind = "ok" /\ last.result.val = value

\* Candidates i and j both match the configured binding, or no candidate does.
SameStanding(i, j) ==
    \/ HasBindingValue(Candidates[i], options) /\ HasBindingValue(Candidates[j], options)
    \/ \A k \in 1..Len(Candidates) : ~HasBindingValue(Candidates[k], options)

\* C1: of two candidates that both match the configured binding (or in a list
\* where none matches), the one with the numerically larger index is never the
\* one whose Location identityProviderUrl / logoutUrl returns.
C1_AscendingNumericIndex ==
    IsEndpointCall =>
        \A i, j \in 1..Len(Candidates) :
            ( /\ NumericIndex(Candidates[i]) < NumericIndex(Candidates[j])
              /\ HasLocation(Candidates[j])
              /\ SameStanding(i, j) )
            => ~Returned(LocationOf(Candidates[j]))

\* The element C2 selects from the sorted list: the first whose Binding
\* attribute is the configured binding URI, else the first.
BindingSelected(sorted) ==
    IF \E i \in 1..Len(sorted) : BindingAttributeMatches(sorted[i])
    THEN CHOOSE i \in 1..Len(sorted) :
            /\ BindingAttributeMatches(sorted[i])
            /\ \A j \in 1..(i - 1) : ~BindingAttributeMatches(sorted[j])
    ELSE 1

\* C2: the result is the Location of the first element of the sorted list
\* whose Binding attribute equals the configured binding URI, and of the first
\* element of the sorted list only when no Binding attribute equals it.
C2_SelectsByBindingAttribute ==
    (IsEndpointCall /\ doc.parsed /\ Len(Candidates) > 0) =>
        LET sorted == sortBy(Candidates)
            e == sorted[BindingSelected(sorted)]
        IN  IF HasLocation(e) THEN Returned(LocationOf(e))
            ELSE last.result.kind # "ok"

\* C4: of two candidates with equal index values (a missing index equal to 0)
\* that both match the configured binding (or in a list where none matches),
\* the one later in the document is never the one whose Location is returned.
C4_EqualIndexKeepsDocumentOrder ==
    IsEndpointCall =>
        \A i, j \in 1..Len(Candidates) :
            ( /\ i < j
              /\ NumericIndex(Candidates[i]) = NumericIndex(Candidates[j])
              /\ HasLocation(Candidates[j])
              /\ SameStanding(i, j) )
            => ~Returned(LocationOf(Candidates[j]))

\* The same two candidates carry the same index text, or one carries "0" and
\* the other no index.
SameIndexText(a, b) ==
    LET i == FindByName(a, "index")
        j == FindByName(b, "index")
        ta == IF i = 0 THEN <<"0">> ELSE a[i].value
        tb == IF j = 0 THEN <<"0">> ELSE b[j].value
    IN  ta = tb

\* The part of C4 the code keeps: candidates whose index texts are the same
\* (a missing index the same as "0") stay in document order.
SameIndexTextKeepsDocumentOrder ==
    IsEndpointCall =>
        \A i, j \in 1..Len(Candidates) :
            ( /\ i < j
              /\ SameIndexText(Candidates[i], Candidates[j])
              /\ HasLocation(Candidates[j])
              /\ SameStanding(i, j) )
            => ~Returned(LocationOf(Candidates[j]))

\* The element the code selected in the last endpoint call.
SelectedCandidate ==
    LET sorted == sortBy(Candidates)
    IN  sorted[SelectedIndex(sorted, options)]

\* C5: identityProviderUrl / logoutUrl on an empty candidate list, or with a
\* selected element that has no Location, is absent (undefined with
\* throwExceptions false, a throw with it true); a returned value is never the
\* empty string and never the Location of a candidate other than the selected.
C5_EmptyListOrNoLocationIsAbsent ==
    IsEndpointCall =>
        /\ (~doc.parsed \/ Len(Candidates) = 0) => last.result = Absent
        /\ (doc.parsed /\ Len(Candidates) > 0 /\ ~HasLocation(SelectedCandidate))
              => last.result = Absent
        /\ last.result.kind = "ok" =>
              /\ last.result.val # <<>>
              /\ HasLocation(SelectedCandidate)
              /\ last.result.val = LocationOf(SelectedCandidate)

\* C5 witness: throwExceptions is false, the selected element has no Location
\* while another candidate has one, and the call returned undefined.
C5_Witness ==
    /\ IsEndpointCall
    /\ ~options.throwExceptions
    /\ doc.parsed /\ Len(Candidates) > 1
    /\ ~HasLocation(SelectedCandidate)
    /\ \E k \in 1..Len(Candidates) : HasLocation(Candidates[k])
    /\ last.result = Undefined

-----------------------------------------------------------------------------
(* Certificates.                                                           *)

IsListCall == last.op \in {"encryptionCerts", "signingCerts"}

IsSingleCall == last.op \in {"encryptionCert", "signingCert"}

\* The use the last certificate call filters on.
CalledUse ==
    IF last.op \in {"encryptionCerts", "encryptionCert"} THEN "encryption"
    ELSE "signing"

\* Positions of the certificate nodes under a key descriptor of the
\* identity-provider role descriptor whose use is the given one or absent.
Listed(use) ==
    {i \in 1..Len(doc.certs) :
        /\ doc.certs[i].role = "IDPSSODescriptor"
        /\ doc.certs[i].use \in {<<>>, <<use>>}}

Readable(i) == ~doc.certs[i].firstChild.isNull

NotWhitespace(c) == c \notin {" ", "\t", "\r", "\n"}

\* The blob of node i as the list operations give it.
Blob(i, trimWhitespace) ==
    IF trimWhitespace THEN SelectSeq(doc.certs[i].firstChild.data, NotWhitespace)
    ELSE doc.certs[i].firstChild.data

\* The k-th smallest member of a set of positions.
RECURSIVE Nth(_, _)
Nth(S, k) ==
    LET m == CHOOSE x \in S : \A y \in S : x <= y
    IN  IF k = 1 THEN m ELSE Nth(S \ {m}, k - 1)

\* The blobs of the listed nodes, in document order.
ExpectedBlobs(use, trimWhitespace) ==
    [k \in 1..Cardinality(Listed(use)) |-> Blob(Nth(Listed(use), k), trimWhitespace)]

\* C7: encryptionCerts / signingCerts return, in document order, exactly the
\* blobs of the nodes whose key descriptor is under the identity-provider role
\* descriptor with use "encryption" / "signing" or no use.
C7_ListsFilterOnUse ==
    (IsListCall /\ doc.parsed /\ \A i \in Listed(CalledUse) : Readable(i)) =>
        last.result = Ok(ExpectedBlobs(CalledUse, last.trimNewLines))

\* C7 witness: encryptionCerts on a document with a readable use="signing"
\* certificate and a readable certificate without use returned one blob.
C7_Witness ==
    /\ last.op = "encryptionCerts"
    /\ last.result.kind = "ok" /\ Len(last.result.val) = 1
    /\ \E i, j \in 1..Len(doc.certs) :
          /\ doc.certs[i].role = "IDPSSODescriptor" /\ doc.certs[i].use = <<"signing">>
          /\ doc.certs[j].role = "IDPSSODescriptor" /\ doc.certs[j].use = <<>>
          /\ Readable(i) /\ Readable(j)

\* r is x without its leading and trailing white space, the rest untouched.
IsTrimOf(r, x) ==
    \E a, b \in 0..Len(x) :
        /\ r = SubSeq(x, a + 1, b)
        /\ \A k \in 1..a : ~NotWhitespace(x[k])
        /\ \A k \in (b + 1)..Len(x) : ~NotWhitespace(x[k])
        /\ Len(r) > 0 => NotWhitespace(r[1]) /\ NotWhitespace(r[Len(r)])

\* What the list operation of the last single-certificate call returns when
\* called with the same argument.
CorrespondingList ==
    IF last.op = "encryptionCert"
    THEN encryptionCerts(doc, options, last.trimNewLines)
    ELSE signingCerts(doc, options, last.trimNewLines)

\* C8: encryptionCert(t) / signingCert(t) is the first element of the list
\* operation called with the same t, without its leading and trailing white
\* space; absent when that list is empty; with t true it holds no white space
\* at all, with t false it is the first listed node's text with only the
\* leading and trailing white space removed.
C8_SingleIsTrimmedFirst ==
    IsSingleCall =>
        /\ (CorrespondingList.kind = "ok" /\ Len(CorrespondingList.val) > 0) =>
              /\ last.result.kind = "ok"
              /\ IsTrimOf(last.result.val, CorrespondingList.val[1])
        /\ (CorrespondingList.kind = "ok" /\ Len(CorrespondingList.val) = 0) =>
              last.result = Absent
        /\ (last.result.kind = "ok" /\ last.trimNewLines) =>
              \A k \in 1..Len(last.result.val) : NotWhitespace(last.result.val[k])
        /\ (last.result.kind = "ok" /\ ~last.trimNewLines) =>
              /\ Listed(CalledUse) # {}
              /\ IsTrimOf(last.result.val,
                          doc.certs[Nth(Listed(CalledUse), 1)].firstChild.data)

\* C8 witness: encryptionCert(false) on a first certificate with white space
\* at both ends returned a text that still has white space inside.
C8_Witness ==
    /\ last.op = "encryptionCert" /\ ~last.trimNewLines
    /\ last.result.kind = "ok"
    /\ \E k \in 1..Len(last.result.val) : ~NotWhitespace(last.result.val[k])
    /\ Listed("encryption") # {}
    /\ LET data == doc.certs[Nth(Listed("encryption"), 1)].firstChild.data
       IN  ~NotWhitespace(data[1]) /\ ~NotWhitespace(data[Len(data)])

\* C10: with throwExceptions false, one listed certificate without a text
\* child makes the list operation return undefined and the single-certificate
\* operation too; with no listed certificate the list operation returns an
\* empty sequence.
C10_ListsAreAllOrNothing ==
    (doc.parsed /\ (IsListCall \/ IsSingleCall)) =>
        /\ (~options.throwExceptions /\ \E i \in Listed(CalledUse) : ~Readable(i)) =>
              last.result = Undefined
        /\ (IsListCall /\ Listed(CalledUse) = {}) => last.result = Ok(<<>>)

\* C10 witness: the first listed certificate is readable, a later one has no
\* text child, and the single-certificate operation returned undefined.
C10_Witness ==
    /\ last.op = "encryptionCert"
    /\ ~options.throwExceptions
    /\ Cardinality(Listed("encryption")) > 1
    /\ Readable(Nth(Listed("encryption"), 1))
    /\ ~Readable(Nth(Listed("encryption"), 2))
    /\ last.result = Undefined

-----------------------------------------------------------------------------
(* claimSchema.                                                            *)

\* The Name values of the claim:Attribute elements of the document.
Names ==
    {doc.attributes[i][FindByName(doc.attributes[i], "Name")].value :
        i \in {k \in 1..Len(doc.attributes) : FindByName(doc.attributes[k], "Name") # 0}}

\* Positions of the elements called n that carry a FriendlyName.
WithFriendlyName(n) ==
    {i \in 1..Len(doc.attributes) :
        /\ \E k \in 1..Len(doc.attributes[i]) :
              doc.attributes[i][k].name = "Name" /\ doc.attributes[i][k].value = n
        /\ \E k \in 1..Len(doc.attributes[i]) :
              doc.attributes[i][k].name = "FriendlyName"}

\* The first FriendlyName for the Name n.
FirstFriendlyName(n) ==
    LET e == doc.attributes[Nth(WithFriendlyName(n), 1)]
    IN  e[FindByName(e, "FriendlyName")].value

HasQuote(n) == \E k \in 1..Len(n) : n[k] = Quote

\* C6: with throwExceptions false claimSchema maps every Name that has a
\* FriendlyName to { name: Name, description: its first FriendlyName } and
\* omits the Names whose lookup fails (a Name that cannot be written between
\* quotes is taken as one whose lookup fails); a failed enumeration gives the
\* empty mapping; with throwExceptions true a failing claim makes the call
\* throw.
C6_BestEffortPerClaim ==
    last.op = "claimSchema" =>
        /\ ~doc.parsed =>
              last.result = (IF options.throwExceptions THEN Thrown ELSE Ok(EmptyClaims))
        /\ (doc.parsed /\ ~options.throwExceptions) =>
              /\ last.result.kind = "ok"
              /\ DOMAIN last.result.val \subseteq Names
              /\ \A n \in Names :
                    /\ n \in DOMAIN last.result.val =>
                          /\ WithFriendlyName(n) # {}
                          /\ last.result.val[n] =
                                [name |-> n, description |-> FirstFriendlyName(n)]
                    /\ (WithFriendlyName(n) # {} /\ ~HasQuote(n)) =>
                          n \in DOMAIN last.result.val
        /\ (doc.parsed /\ options.throwExceptions
              /\ \E n \in Names : WithFriendlyName(n) = {} /\ ~HasQuote(n)) =>
              last.result = Thrown

\* What C6 says, on the documents none of whose Names holds a quote: the code
\* keeps it there.
QuoteFreeBestEffortPerClaim ==
    (\A n \in Names : ~HasQuote(n)) => C6_BestEffortPerClaim

-----------------------------------------------------------------------------
(* The fail-soft contract and idempotence.                                 *)

NoLocationAnywhere(elements) ==
    \A i \in 1..Len(elements) : ~HasLocation(elements[i])

\* The last call met a missing node, attribute or child.
MissingSomething ==
    \/ ~doc.parsed
    \/ last.op = "entityID" /\ doc.entityIDs = <<>>
    \/ last.op = "identifierFormat" /\ doc.nameIDFormats = <<>>
    \/ last.op = "identityProviderUrl" /\ NoLocationAnywhere(doc.sso)
    \/ last.op = "logoutUrl" /\ NoLocationAnywhere(doc.slo)
    \/ (IsListCall \/ IsSingleCall) /\ \E i \in Listed(CalledUse) : ~Readable(i)
    \/ IsSingleCall /\ Listed(CalledUse) = {}

\* C3: with throwExceptions false no accessor throws, and an accessor that
\* meets a missing node, attribute or child returns undefined (claimSchema: the
\* empty mapping when the enumeration fails); with throwExceptions true the
\* same failure is thrown.
C3_FailSoft ==
    last.op # "none" =>
        /\ ~options.throwExceptions => last.result.kind # "thrown"
        /\ (last.op # "claimSchema" /\ MissingSomething) => last.result = Absent
        /\ (last.op = "claimSchema" /\ ~doc.parsed) =>
              last.result = (IF options.throwExceptions THEN Thrown ELSE Ok(EmptyClaims))
        /\ (last.op = "claimSchema" /\ doc.parsed /\ options.throwExceptions
              /\ \E n \in Names : WithFriendlyName(n) = {} /\ ~HasQuote(n)) =>
              last.result = Thrown

\* C3 witness: entityID on a document without EntityDescriptor, with
\* throwExceptions false, returned undefined.
C3_Witness ==
    /\ last.op = "entityID"
    /\ doc.parsed /\ doc.entityIDs = <<>>
    /\ ~options.throwExceptions
    /\ last.result = Undefined

\* C9: a call leaves the document and the options as they were, and the same
\* call made again on the reader it leaves returns what it has just returned.
C9_CallsChangeNothing ==
    [][ /\ doc' = doc
        /\ options' = options
        /\ last'.result = Result(last'.op, last'.trimNewLines, doc', options') ]_vars

\* C9 witness: encryptionCerts(true) has returned the stripped text of a
\* certificate whose text in the document holds white space.
C9_Witness ==
    /\ last.op = "encryptionCerts" /\ last.trimNewLines
    /\ last.result.kind = "ok" /\ Len(last.result.val) > 0
    /\ \E i \in Listed("encryption") :
          \E k \in 1..Len(doc.certs[i].firstChild.data) :
              ~NotWhitespace(doc.certs[i].firstChild.data[k])

====
